---------------------------- MODULE Spec2Model ----------------------------
(***************************************************************************)
(* A model of src/main.py, the AIOps recommendation API: the /recommend   *)
(* handler and the functions it calls (extract, k8s_get, fetch_pod,       *)
(* fetch_pod_events, fetch_pod_logs, summarize_pod, retrieve).            *)
(*                                                                         *)
(* Python values are tagged records, so that the dynamic typing the code  *)
(* relies on (None, "", {} and [] are all falsy; .get exists on dicts     *)
(* only; slicing on strings and lists only) is part of the model:         *)
(*   [t |-> "null"]            None / JSON null                            *)
(*   [t |-> "str", s |-> seq]  a string, as its sequence of characters     *)
(*   [t |-> "num", n |-> i]    an integer                                  *)
(*   [t |-> "obj", f |-> fn]   a dict, as a function on its keys           *)
(*   [t |-> "arr", a |-> seq]  a list                                      *)
(*   [t |-> "raise", e |-> x]  not a value: the evaluation raised x       *)
(***************************************************************************)
EXTENDS Integers, Sequences, FiniteSets, Bags, TLC

VARIABLES
    pc,          \* position of the request in recommend (or of a unit run)
    payload,     \* the request body handed to recommend / extract
    info,        \* extract(payload)
    runbooks,    \* the runbook corpus text
    query,       \* the query string given to retrieve
    maxChars,    \* retrieve's max_chars
    ctx,         \* retrieve's result
    podObj,      \* fetch_pod's result (the resource state)
    podSummary,  \* summarize_pod(pod_obj)
    evData,      \* the parsed body of the event list query (k8s_get's result)
    maxItems,    \* fetch_pod_events' max_items
    events,      \* fetch_pod_events' result
    logs,        \* fetch_pod_logs' result
    saToken,     \* whether the service account token file exists
    sent,        \* the HTTP requests sent to the cluster API, in order
    calls,       \* the cluster queries made, each with how it ended
    text,        \* the recommendation text
    completions, \* the calls of client.responses.create, each with how it ended
    k8s_context, \* the evidence bundle
    rows,        \* the rows of table recommendations
    exc,         \* the exception on its way to recommend's handler
    response,    \* what recommend returns
    REQ_TOTAL,   \* counter aiops_reco_requests_total, by status
    LAT,         \* number of observations of the latency histogram
    OPENAI_TOTAL, \* counter aiops_reco_openai_calls_total, by status
    K8S_TOTAL    \* counter aiops_reco_k8s_calls_total: a bag of <<kind, status>>

unitVars == <<pc, payload, info, runbooks, query, maxChars, ctx, podObj,
              podSummary, evData, maxItems, events, logs>>

requestVars == <<saToken, sent, calls, text, completions, k8s_context, rows,
                 exc, response, REQ_TOTAL, LAT, OPENAI_TOTAL, K8S_TOTAL>>

vars == <<unitVars, requestVars>>

-----------------------------------------------------------------------------
(* Python values *)

JNull == [t |-> "null"]
JStr(s) == [t |-> "str", s |-> s]
JNum(n) == [t |-> "num", n |-> n]
JObj(f) == [t |-> "obj", f |-> f]
JArr(a) == [t |-> "arr", a |-> a]
Raise(e) == [t |-> "raise", e |-> e]

IsRaise(v) == v.t = "raise"

EmptyStr == JStr(<<>>)
EmptyObj == JObj(<<>>)
EmptyArr == JArr(<<>>)

Min(a, b) == IF a <= b THEN a ELSE b
Max(a, b) == IF a >= b THEN a ELSE b

\* a test for None where the code tests the truth value
NotNone(v) == v.t # "null"

\* Python's truth value of an object.
Truthy(v) ==
    CASE v.t = "null" -> FALSE
      [] v.t = "str"  -> v.s # <<>>
      [] v.t = "num"  -> v.n # 0
      [] v.t = "obj"  -> DOMAIN v.f # {}
      [] v.t = "arr"  -> v.a # <<>>

\* a or b
Or(a, b) ==
    IF IsRaise(a) THEN a ELSE IF Truthy(a) THEN a ELSE b

\* a get that forgets its default: d.get(k)
DictGetNone(d, k, default) ==
    IF IsRaise(d) THEN d
    ELSE IF d.t # "obj" THEN Raise("AttributeError")
    ELSE IF k \in DOMAIN d.f THEN d.f[k] ELSE JNull

\* d.get(k, default): only a dict has .get
DictGet(d, k, default) ==
    IF IsRaise(d) THEN d
    ELSE IF d.t # "obj" THEN Raise("AttributeError")
    ELSE IF k \in DOMAIN d.f THEN d.f[k] ELSE default

\* a slice that cuts nothing
TakeAll(s, n) == s

\* s[:n] on a sequence, with Python's meaning of a negative n
Take(s, n) ==
    IF n >= 0 THEN SubSeq(s, 1, Min(n, Len(s)))
    ELSE SubSeq(s, 1, Max(Len(s) + n, 0))

\* v[:n]: strings and lists can be sliced
Slice(v, n) ==
    IF IsRaise(v) THEN v
    ELSE CASE v.t = "str" -> JStr(Take(v.s, n))
           [] v.t = "arr" -> JArr(Take(v.a, n))
           [] OTHER       -> Raise("TypeError")

\* v[0]
Index0(v) ==
    IF IsRaise(v) THEN v
    ELSE CASE v.t = "arr" -> IF v.a = <<>> THEN Raise("IndexError") ELSE v.a[1]
           [] v.t = "str" -> IF v.s = <<>> THEN Raise("IndexError")
                             ELSE JStr(<<v.s[1]>>)
           [] v.t = "obj" -> Raise("KeyError")
           [] OTHER       -> Raise("TypeError")

\* The first of a list of evaluations, in evaluation order, that raised.
RECURSIVE FirstRaise(_)
FirstRaise(vs) ==
    IF vs = <<>> THEN JNull
    ELSE IF IsRaise(Head(vs)) THEN Head(vs) ELSE FirstRaise(Tail(vs))

-----------------------------------------------------------------------------
(* extract *)

S_unknown == <<"u", "n", "k", "n", "o", "w", "n">>

SummaryMax == 500

extract(p) ==
    LET alerts == Or(DictGet(p, "alerts", JNull), EmptyArr)
        a      == IF IsRaise(alerts) THEN alerts
                  ELSE IF Truthy(alerts) THEN Index0(alerts) ELSE EmptyObj
        labels == Or(DictGet(a, "labels", JNull), EmptyObj)
        ann    == Or(DictGet(a, "annotations", JNull), EmptyObj)
        alertname  == DictGet(labels, "alertname", JStr(S_unknown))
        severity   == DictGet(labels, "severity", JStr(S_unknown))
        \* the default argument is evaluated before the outer get
        ns_syn     == DictGet(labels, "kubernetes_namespace", JStr(S_unknown))
        namespace  == DictGet(labels, "namespace", ns_syn)
        pod_syn    == DictGet(labels, "pod_name", EmptyStr)
        pod        == DictGet(labels, "pod", pod_syn)
        dep_syn    == DictGet(labels, "kubernetes_deployment", EmptyStr)
        deployment == DictGet(labels, "deployment", dep_syn)
        summary    == Slice(Or(Or(DictGet(ann, "summary", JNull),
                                  DictGet(ann, "description", JNull)),
                               EmptyStr), SummaryMax)
        parts == <<alerts, a, labels, ann, alertname, severity, ns_syn,
                   namespace, pod_syn, pod, dep_syn, deployment, summary>>
    IN  IF IsRaise(FirstRaise(parts)) THEN FirstRaise(parts)
        ELSE JObj([alertname  |-> alertname,
                   severity   |-> severity,
                   namespace  |-> namespace,
                   pod        |-> pod,
                   deployment |-> deployment,
                   summary    |-> summary])

-----------------------------------------------------------------------------
(* retrieve *)

UpperLetters == <<"A", "B", "C", "D", "E", "F", "G", "H", "I", "J", "K", "L", "M",
                  "N", "O", "P", "Q", "R", "S", "T", "U", "V", "W", "X", "Y", "Z">>
LowerLetters == <<"a", "b", "c", "d", "e", "f", "g", "h", "i", "j", "k", "l", "m",
                  "n", "o", "p", "q", "r", "s", "t", "u", "v", "w", "x", "y", "z">>
Digits == <<"0", "1", "2", "3", "4", "5", "6", "7", "8", "9">>

Range(s) == {s[i] : i \in DOMAIN s}

\* c.lower() for one character
LowerChar(c) ==
    IF c \in Range(UpperLetters)
    THEN LowerLetters[CHOOSE i \in DOMAIN UpperLetters : UpperLetters[i] = c]
    ELSE c

\* s.lower()
LowerStr(s) == [i \in DOMAIN s |-> LowerChar(s[i])]

\* the character class [a-z0-9]
IsTokChar(c) == c \in Range(LowerLetters) \cup Range(Digits)

\* set(re.findall(r"[a-z0-9]+", s)): the maximal runs of [a-z0-9]
Tokens(s) ==
    LET starts == {i \in DOMAIN s :
                      IsTokChar(s[i]) /\ (i = 1 \/ ~IsTokChar(s[i - 1]))}
        ends   == {j \in DOMAIN s :
                      IsTokChar(s[j]) /\ (j = Len(s) \/ ~IsTokChar(s[j + 1]))}
        endOf(i) == CHOOSE j \in ends :
                      j >= i /\ \A e \in ends : e >= i => j <= e
    IN  {SubSeq(s, i, endOf(i)) : i \in starts}

\* s.split("\n\n"): the pieces between non-overlapping occurrences of the
\* separator, found left to right
RECURSIVE SplitBlank(_)
SplitBlank(s) ==
    LET hits == {i \in 1..(Len(s) - 1) : s[i] = "\n" /\ s[i + 1] = "\n"}
    IN  IF hits = {} THEN <<s>>
        ELSE LET i == CHOOSE h \in hits : \A g \in hits : h <= g
             IN  <<SubSeq(s, 1, i - 1)>> \o SplitBlank(SubSeq(s, i + 2, Len(s)))

\* a scan in which the last of the best chunks wins
BetterOrEqual(score, best_score) == score >= best_score

\* the comparison of the scan: a chunk replaces the best one when it scores
\* strictly more
Better(score, best_score) == score > best_score

\* the for loop of retrieve: (best, best_score) after the chunks
RECURSIVE Scan(_, _, _, _)
Scan(chunks, qtok, best, best_score) ==
    IF chunks = <<>> THEN best
    ELSE LET chunk == Head(chunks)
             ctok  == Tokens(LowerStr(chunk))
             score == Cardinality(qtok \cap ctok)
         IN  IF Better(score, best_score)
             THEN Scan(Tail(chunks), qtok, chunk, score)
             ELSE Scan(Tail(chunks), qtok, best, best_score)

retrieve(rb, q, max_chars) ==
    LET qtok == Tokens(LowerStr(q))
        best == Scan(SplitBlank(rb), qtok, <<>>, 0)
    IN  IF best # <<>> THEN Take(best, max_chars) ELSE <<>>

-----------------------------------------------------------------------------
(* str(), comparison of strings, join *)

\* the ASCII characters of code points 32 to 95, in order
AsciiTable ==
    <<" ", "!", "\"", "#", "$", "%", "&", "'", "(", ")", "*", "+">> \o
    <<",", "-", ".", "/", "0", "1", "2", "3", "4", "5", "6", "7">> \o
    <<"8", "9", ":", ";", "<", "=", ">", "?", "@", "A", "B", "C">> \o
    <<"D", "E", "F", "G", "H", "I", "J", "K", "L", "M", "N", "O">> \o
    <<"P", "Q", "R", "S", "T", "U", "V", "W", "X", "Y", "Z", "[">> \o
    <<"\\", "]", "^", "_">>

\* ord(c), for a line feed, a lower-case letter or a character of the table
CodePoint(c) ==
    IF c = "\n" THEN 10
    ELSE IF c \in Range(LowerLetters)
    THEN 96 + (CHOOSE i \in DOMAIN LowerLetters : LowerLetters[i] = c)
    ELSE 31 + (CHOOSE i \in DOMAIN AsciiTable : AsciiTable[i] = c)

\* a < b on strings: by code point at the first difference, a proper prefix
\* being smaller
StrLess(a, b) ==
    \/ /\ Len(a) < Len(b)
       /\ \A i \in DOMAIN a : a[i] = b[i]
    \/ \E i \in DOMAIN a \cap DOMAIN b :
          /\ \A j \in 1..(i - 1) : a[j] = b[j]
          /\ CodePoint(a[i]) < CodePoint(b[i])

\* str(n) for a natural number
RECURSIVE NatStr(_)
NatStr(n) ==
    IF n < 10 THEN <<Digits[n + 1]>>
    ELSE NatStr(n \div 10) \o <<Digits[(n % 10) + 1]>>

S_None == <<"N", "o", "n", "e">>

\* str(v), as an f-string renders a string, an integer or None (the
\* rendering of a dict or a list is not modelled: no input puts one there)
Format(v) ==
    CASE v.t = "str"  -> v.s
      [] v.t = "null" -> S_None
      [] v.t = "num"  -> IF v.n < 0 THEN <<"-">> \o NatStr(-v.n) ELSE NatStr(v.n)

\* sep.join(parts)
RECURSIVE Join(_, _)
Join(parts, sep) ==
    IF parts = <<>> THEN <<>>
    ELSE IF Len(parts) = 1 THEN parts[1]
    ELSE parts[1] \o sep \o Join(Tail(parts), sep)

-----------------------------------------------------------------------------
(* fetch_pod_events, after its query *)

MessageMax == 300

DefaultMaxItems == 15

\* ts(e): the first truthy of lastTimestamp, eventTime, firstTimestamp, else ""
ts(e) ==
    Or(Or(Or(DictGet(e, "lastTimestamp", JNull), DictGet(e, "eventTime", JNull)),
          DictGet(e, "firstTimestamp", JNull)), EmptyStr)

\* a < b between two sort keys: strings with strings, numbers with numbers
KeyLess(a, b) ==
    IF a.t = "str" THEN StrLess(a.s, b.s) ELSE a.n < b.n

\* whether list.sort can compare these keys with one another
Comparable(keys) ==
    \/ Len(keys) <= 1
    \/ \A i \in DOMAIN keys : keys[i].t = "str"
    \/ \A i \in DOMAIN keys : keys[i].t = "num"

\* e put into a list sorted by descending key, behind the elements whose key
\* is not smaller than its own
InsertDesc(sorted, e) ==
    LET n == Cardinality({i \in DOMAIN sorted : ~KeyLess(ts(sorted[i]), ts(e))})
    IN  SubSeq(sorted, 1, n) \o <<e>> \o SubSeq(sorted, n + 1, Len(sorted))

\* items.sort(key=ts, reverse=True): descending, equal keys in their order
RECURSIVE SortDesc(_, _)
SortDesc(items, sorted) ==
    IF items = <<>> THEN sorted
    ELSE SortDesc(Tail(items), InsertDesc(sorted, Head(items)))

\* the record fetch_pod_events makes of one event
EventRecord(e) ==
    LET type    == DictGet(e, "type", EmptyStr)
        reason  == DictGet(e, "reason", EmptyStr)
        message == Slice(Or(DictGet(e, "message", EmptyStr), EmptyStr), MessageMax)
        count   == DictGet(e, "count", JNum(1))
        last    == ts(e)
        parts   == <<type, reason, message, count, last>>
    IN  IF IsRaise(FirstRaise(parts)) THEN FirstRaise(parts)
        ELSE JObj([type |-> type, reason |-> reason, message |-> message,
                   count |-> count, lastTimestamp |-> last])

\* lines 102-115: the list made of the result of the query
EventsFrom(data, max_items) ==
    LET items == Or(DictGet(Or(data, EmptyObj), "items", JNull), EmptyArr)
    IN  IF IsRaise(items) THEN items
        ELSE IF items.t # "arr" THEN Raise("AttributeError")
        ELSE LET keys == [i \in DOMAIN items.a |-> ts(items.a[i])]
             IN  IF IsRaise(FirstRaise(keys)) THEN FirstRaise(keys)
                 ELSE IF ~Comparable(keys) THEN Raise("TypeError")
                 ELSE LET kept == Take(SortDesc(items.a, <<>>), max_items)
                          out  == [i \in DOMAIN kept |-> EventRecord(kept[i])]
                      IN  IF IsRaise(FirstRaise(out)) THEN FirstRaise(out)
                          ELSE JArr(out)

-----------------------------------------------------------------------------
(* summarize_pod *)

S_notFetched == <<"(", "p", "o", "d", " ", "n", "o", "t", " ", "f", "e", "t", "c", "h", "e", "d", ")">>
K_phase == <<"p", "h", "a", "s", "e", "=">>
K_container == <<"c", "o", "n", "t", "a", "i", "n", "e", "r", "=">>
K_restartCount == <<"r", "e", "s", "t", "a", "r", "t", "C", "o", "u", "n", "t", "=">>
K_waitingReason == <<"s", "t", "a", "t", "e", ".", "w", "a", "i", "t", "i", "n", "g", ".", "r", "e", "a", "s", "o", "n", "=">>
K_waitingMessage == <<"s", "t", "a", "t", "e", ".", "w", "a", "i", "t", "i", "n", "g", ".", "m", "e", "s", "s", "a", "g", "e", "=">>
K_terminatedReason == <<"s", "t", "a", "t", "e", ".", "t", "e", "r", "m", "i", "n", "a", "t", "e", "d", ".", "r", "e", "a", "s", "o", "n", "=">>
K_terminatedExitCode == <<"s", "t", "a", "t", "e", ".", "t", "e", "r", "m", "i", "n", "a", "t", "e", "d", ".", "e", "x", "i", "t", "C", "o", "d", "e", "=">>
K_lastReason == <<"l", "a", "s", "t", ".", "t", "e", "r", "m", "i", "n", "a", "t", "e", "d", ".", "r", "e", "a", "s", "o", "n", "=">>
K_lastExitCode == <<"l", "a", "s", "t", ".", "t", "e", "r", "m", "i", "n", "a", "t", "e", "d", ".", "e", "x", "i", "t", "C", "o", "d", "e", "=">>

WaitingMessageMax == 200

PodSummaryMax == 2000

\* a test by truth value where the code tests the key: if d.get(k)
InDictTruthy(k, d) == k \in DOMAIN d.f /\ Truthy(d.f[k])

\* k in d, for a dict d
InDict(k, d) == k \in DOMAIN d.f

\* the lines a test "k in d" guards: those of `then` when d is a dict holding
\* k, none when it is a dict without k; an integer d raises (the substring
\* and membership tests of a str or list d are not modelled: no input puts
\* one there)
IfIn(k, d, then) ==
    CASE d.t = "obj" -> IF InDict(k, d) THEN then ELSE <<>>
      [] d.t = "num" -> <<Raise("TypeError")>>

\* one f-string line: key=value
Line(key, v) == IF IsRaise(v) THEN v ELSE JStr(key \o Format(v))

\* the two lines of a terminated entry t
TerminatedLines(t, kReason, kExit) ==
    <<Line(kReason, DictGet(t, "reason", EmptyStr)),
      Line(kExit, DictGet(t, "exitCode", EmptyStr))>>

\* the two lines of a waiting entry w
WaitingLines(w) ==
    <<Line(K_waitingReason, DictGet(w, "reason", EmptyStr)),
      Line(K_waitingMessage,
           Slice(Or(DictGet(w, "message", EmptyStr), EmptyStr),
                 WaitingMessageMax))>>

\* the lines appended for the first container status; an element that is a
\* raise stands for the exception raised at that point
ContainerLines(c0) ==
    LET state == Or(DictGet(c0, "state", JNull), EmptyObj)
        last  == Or(DictGet(c0, "lastState", JNull), EmptyObj)
        head  == <<Line(K_container, DictGet(c0, "name", EmptyStr)),
                   Line(K_restartCount, DictGet(c0, "restartCount", JNum(0)))>>
    IN  IF IsRaise(FirstRaise(<<c0, head[1], head[2], state, last>>))
        THEN <<FirstRaise(<<c0, head[1], head[2], state, last>>)>>
        ELSE head
             \o IfIn("waiting", state, WaitingLines(state.f["waiting"]))
             \o IfIn("terminated", state,
                     TerminatedLines(state.f["terminated"],
                                     K_terminatedReason, K_terminatedExitCode))
             \o IfIn("terminated", last,
                     TerminatedLines(last.f["terminated"],
                                     K_lastReason, K_lastExitCode))

summarize_pod(pod_obj) ==
    IF ~Truthy(pod_obj) THEN JStr(S_notFetched)
    ELSE LET st == Or(DictGet(pod_obj, "status", JNull), EmptyObj)
             cs == Or(DictGet(st, "containerStatuses", JNull), EmptyArr)
             first == <<st, cs, Line(K_phase, DictGet(st, "phase", EmptyStr))>>
             lines == IF IsRaise(FirstRaise(first)) THEN <<FirstRaise(first)>>
                      ELSE IF Truthy(cs)
                      THEN <<first[3]>> \o ContainerLines(Index0(cs))
                      ELSE <<first[3]>>
         IN  IF IsRaise(FirstRaise(lines)) THEN FirstRaise(lines)
             ELSE JStr(Take(Join([i \in DOMAIN lines |-> lines[i].s], <<"\n">>),
                            PodSummaryMax))

-----------------------------------------------------------------------------
(* Values the unit specifications leave alone *)

NoResponse == [kind |-> "none"]

NoCounts == [status \in {"success", "error"} |-> 0]

RequestIdle ==
    /\ saToken = FALSE
    /\ sent = <<>>
    /\ calls = <<>>
    /\ text = JNull
    /\ completions = <<>>
    /\ k8s_context = JNull
    /\ rows = <<>>
    /\ exc = JNull
    /\ response = NoResponse
    /\ REQ_TOTAL = NoCounts
    /\ LAT = 0
    /\ OPENAI_TOTAL = NoCounts
    /\ K8S_TOTAL = EmptyBag

-----------------------------------------------------------------------------
(* retrieve on its own: every corpus up to MaxCorpusLen characters *)

MaxCorpusLen == 6

CorpusChars == {"a", "B", "\n"}

RECURSIVE SeqsUpTo(_, _)
SeqsUpTo(S, n) ==
    IF n = 0 THEN {<<>>}
    ELSE LET shorter == SeqsUpTo(S, n - 1)
         IN  shorter \cup {Append(s, c) : s \in {t \in shorter : Len(t) = n - 1}, c \in S}

Corpora == SeqsUpTo(CorpusChars, MaxCorpusLen)

Queries == {<<>>, <<"A">>, <<"b">>, <<"c">>, <<"A", " ", "b">>,
            <<"b", "-", "b">>, <<"a", "b">>}

MaxCharsSet == {0, 1, 3, 2000}

InitRetrieve ==
    /\ pc = "retrieve"
    /\ RequestIdle
    /\ runbooks \in Corpora
    /\ query \in Queries
    /\ maxChars \in MaxCharsSet
    /\ ctx = <<>>
    /\ payload = EmptyObj /\ info = JNull /\ podObj = JNull /\ podSummary = <<>>
    /\ evData = JNull /\ maxItems = 0 /\ events = EmptyArr /\ logs = <<>>

CallRetrieve ==
    /\ pc = "retrieve"
    /\ ctx' = retrieve(runbooks, query, maxChars)
    /\ pc' = "retrieved"
    /\ UNCHANGED <<payload, info, runbooks, query, maxChars, podObj, podSummary,
                   evData, maxItems, events, logs>>
    /\ UNCHANGED requestVars

SpecRetrieve == InitRetrieve /\ [][CallRetrieve]_vars

-----------------------------------------------------------------------------
(* C6: what retrieve returns *)

\* the maximal runs of ASCII letters and digits of s, lower-cased
MaximalRuns(s) ==
    LET l == LowerStr(s)
    IN  {SubSeq(l, i, j) : <<i, j>> \in
            {r \in (DOMAIN l) \X (DOMAIN l) :
                /\ r[1] <= r[2]
                /\ \A k \in r[1]..r[2] : IsTokChar(l[k])
                /\ (r[1] = 1 \/ ~IsTokChar(l[r[1] - 1]))
                /\ (r[2] = Len(l) \/ ~IsTokChar(l[r[2] + 1]))}}

Passages == SplitBlank(runbooks)

Overlap(i) == Cardinality(MaximalRuns(Passages[i]) \cap MaximalRuns(query))

\* the passages that share a token with the query, score at least as much as
\* every passage and strictly more than every earlier one
Winners ==
    {i \in DOMAIN Passages :
        /\ Overlap(i) > 0
        /\ \A j \in DOMAIN Passages :
              Overlap(j) <= Overlap(i) /\ (j < i => Overlap(j) < Overlap(i))}

FirstChars(s, n) == SubSeq(s, 1, Min(n, Len(s)))

RetrieveAsClaimed ==
    /\ (ctx = <<>>) <=> (\A i \in DOMAIN Passages : Overlap(i) = 0)
    /\ \A i \in Winners : ctx = FirstChars(Passages[i], maxChars)
    \* letter case never changes the passage selected
    /\ LowerStr(ctx) = retrieve(LowerStr(runbooks), LowerStr(query), maxChars)
    \* nor does repeating the query's tokens
    /\ ctx = retrieve(runbooks, query \o <<" ">> \o query, maxChars)

\* C6 as stated: for every corpus, query and maxChars, retrieve returns the
\* first maxChars characters of the earliest passage with the strictly
\* largest token overlap, and the empty string exactly when no passage shares
\* a token with the query; case and repeated query tokens change nothing.
C6_AsStated == pc = "retrieved" => RetrieveAsClaimed

\* C6 amended: the same for every maxChars >= 1 (with maxChars = 0 the result
\* is empty whatever the corpus).
C6_Retrieve ==
    pc = "retrieved" =>
        IF maxChars >= 1 THEN RetrieveAsClaimed ELSE ctx = <<>>

\* a tie between two passages that share a token with the query, the first of
\* them returned cut to maxChars
C6_Witness ==
    /\ pc = "retrieved"
    /\ maxChars >= 1
    /\ \E i \in Winners : \E j \in DOMAIN Passages :
          /\ j > i /\ Overlap(j) = Overlap(i)
          /\ Len(Passages[i]) > maxChars
          /\ ctx = FirstChars(Passages[i], maxChars)

-----------------------------------------------------------------------------
(* extract on its own: every combination of present and absent keys *)

LabelKeys == {"alertname", "severity", "namespace", "kubernetes_namespace",
              "pod", "pod_name", "deployment", "kubernetes_deployment"}

LabelValue ==
    [alertname |-> <<"C", "L">>, severity |-> <<"c">>, namespace |-> <<"n">>,
     kubernetes_namespace |-> <<"k", "n">>, pod |-> <<"w">>,
     pod_name |-> <<"p", "n">>, deployment |-> <<"d">>,
     kubernetes_deployment |-> <<"k", "d">>]

LabelDicts == {[k \in S |-> JStr(LabelValue[k])] : S \in SUBSET LabelKeys}

LongSummaryLen == 501

Filler(n) == [i \in 1..n |-> "x"]

SummaryValues == {<<>>, <<"s">>, Filler(LongSummaryLen)}

AnnDicts ==
    {<<>>, [description |-> JStr(<<"d">>)]}
    \cup {[summary |-> JStr(v)] : v \in SummaryValues}
    \cup {[summary |-> JStr(v), description |-> JStr(<<"d">>)] : v \in SummaryValues}

\* a key of an alert: absent, null or a dict
Slots(dicts) == {[has |-> FALSE, v |-> JNull], [has |-> TRUE, v |-> JNull]}
                \cup {[has |-> TRUE, v |-> JObj(d)] : d \in dicts}

AlertOf(l, a) ==
    JObj([k \in ({"labels"} \cap (IF l.has THEN {"labels"} ELSE {}))
                \cup ({"annotations"} \cap (IF a.has THEN {"annotations"} ELSE {}))
            |-> IF k = "labels" THEN l.v ELSE a.v])

Alerts == {AlertOf(l, a) : l \in Slots(LabelDicts), a \in Slots(AnnDicts)}

\* payloads of the documented shape, and some that are not
ShapedPayloads ==
    {EmptyObj, JObj([alerts |-> JNull]), JObj([alerts |-> EmptyArr])}
    \cup {JObj([alerts |-> JArr(<<a>>)]) : a \in Alerts}

MisshapenPayloads ==
    {JObj([alerts |-> JStr(<<"x">>)]),
     JObj([alerts |-> JArr(<<JNull>>)]),
     JObj([alerts |-> JObj([k |-> JNull])]),
     JObj([alerts |-> JArr(<<JObj([labels |-> JStr(<<"x">>)])>>)]),
     JObj([alerts |-> JArr(<<JObj([annotations |->
                                     JObj([summary |-> JNum(5)])])>>)])}

InitExtract ==
    /\ pc = "extract"
    /\ RequestIdle
    /\ payload \in ShapedPayloads \cup MisshapenPayloads
    /\ info = JNull
    /\ runbooks = <<>> /\ query = <<>> /\ maxChars = 0 /\ ctx = <<>>
    /\ podObj = JNull /\ podSummary = <<>>
    /\ evData = JNull /\ maxItems = 0 /\ events = EmptyArr /\ logs = <<>>

CallExtract ==
    /\ pc = "extract"
    /\ info' = extract(payload)
    /\ pc' = "extracted"
    /\ UNCHANGED <<payload, runbooks, query, maxChars, ctx, podObj, podSummary,
                   evData, maxItems, events, logs>>
    /\ UNCHANGED requestVars

SpecExtract == InitExtract /\ [][CallExtract]_vars

-----------------------------------------------------------------------------
(* C8: the defaults of extract *)

\* the dict under key k of the first alert, empty when anything on the way
\* is missing or null
FirstAlertDict(k) ==
    LET f == payload.f
        as == IF "alerts" \in DOMAIN f /\ f["alerts"].t = "arr"
              THEN f["alerts"].a ELSE <<>>
        a  == IF as # <<>> THEN as[1].f ELSE <<>>
    IN  IF k \in DOMAIN a /\ a[k].t = "obj" THEN a[k].f ELSE <<>>

Fallback(out, primary, synonym, default) ==
    LET L == FirstAlertDict("labels")
    IN  /\ primary \notin DOMAIN L /\ synonym \in DOMAIN L => out = L[synonym]
        /\ primary \notin DOMAIN L /\ synonym \notin DOMAIN L => out = default

-----------------------------------------------------------------------------
(* fetch_pod_events on its own: every list of up to MaxEvents events *)

MaxEvents == 3

\* Timestamps as the API server writes them (RFC 3339, UTC): lastTimestamp
\* and firstTimestamp are of type Time, with whole seconds; eventTime is of
\* type MicroTime, with six digits of fraction.
S_dateTime == <<"2", "0", "2", "4", "-", "0", "1", "-", "0", "1", "T",
                "0", "0", ":", "0", "0", ":", "0">>

TimeStr(sec) == S_dateTime \o <<Digits[sec + 1], "Z">>

MicroTimeStr(sec, tenth) ==
    S_dateTime \o <<Digits[sec + 1], ".", Digits[tenth + 1],
                    "0", "0", "0", "0", "0", "Z">>

Seconds == {4, 5}

\* events as the two recorders write them, and some with fewer fields
EventShapes ==
    {[lastTimestamp |-> JStr(TimeStr(s)), firstTimestamp |-> JStr(TimeStr(4)),
      eventTime |-> JNull] : s \in Seconds}
    \cup {[lastTimestamp |-> JNull, firstTimestamp |-> JNull,
           eventTime |-> JStr(MicroTimeStr(s, d))] : s \in Seconds, d \in {0, 5}}
    \cup {[firstTimestamp |-> JStr(TimeStr(s))] : s \in Seconds}
    \cup {[lastTimestamp |-> EmptyStr], <<>>}

\* the event of shape sh that is i-th in the list: its message tells it apart
EventAt(sh, i) ==
    JObj([k \in DOMAIN sh \cup {"message", "type"} |->
            IF k = "message" THEN JStr(<<"m", Digits[i + 1]>>)
            ELSE IF k = "type" THEN JStr(<<"W">>)
            ELSE sh[k]])

EventLists ==
    UNION {{[i \in 1..n |-> EventAt(shapes[i], i)] : shapes \in [1..n -> EventShapes]}
           : n \in 0..MaxEvents}

MaxItemsSet == {1, 2, DefaultMaxItems}

InitEvents ==
    /\ pc = "events"
    /\ RequestIdle
    /\ evData \in {JObj([items |-> JArr(l)]) : l \in EventLists}
    /\ maxItems \in MaxItemsSet
    /\ events = EmptyArr
    /\ payload = EmptyObj /\ info = JNull
    /\ runbooks = <<>> /\ query = <<>> /\ maxChars = 0 /\ ctx = <<>>
    /\ podObj = JNull /\ podSummary = <<>> /\ logs = <<>>

CallEvents ==
    /\ pc = "events"
    /\ events' = EventsFrom(evData, maxItems)
    /\ pc' = "events_done"
    /\ UNCHANGED <<payload, info, runbooks, query, maxChars, ctx, podObj,
                   podSummary, evData, maxItems, logs>>
    /\ UNCHANGED requestVars

SpecEvents == InitEvents /\ [][CallEvents]_vars

-----------------------------------------------------------------------------
(* C7: the order of the events *)

\* the field that tells an event's recency: lastTimestamp, else eventTime,
\* else firstTimestamp; <<>> when it has none of them
RecencyField(e) ==
    LET has(k) == k \in DOMAIN e.f /\ e.f[k].t = "str" /\ e.f[k].s # <<>>
    IN  IF has("lastTimestamp") THEN e.f["lastTimestamp"].s
        ELSE IF has("eventTime") THEN e.f["eventTime"].s
        ELSE IF has("firstTimestamp") THEN e.f["firstTimestamp"].s
        ELSE <<>>

DigitOf(c) == (CHOOSE i \in DOMAIN Digits : Digits[i] = c) - 1

\* the instant a timestamp names, in tenths of a second after the minute;
\* -1 for an event without a timestamp
Instant(s) ==
    IF s = <<>> THEN -1
    ELSE LET sec == 10 * DigitOf(s[Len(S_dateTime)]) + DigitOf(s[Len(S_dateTime) + 1])
         IN  IF s[Len(S_dateTime) + 2] = "."
             THEN 10 * sec + DigitOf(s[Len(S_dateTime) + 3])
             ELSE 10 * sec

InputEvents == evData.f["items"].a

\* the input event an output record was made of
SourceOf(r) ==
    CHOOSE i \in DOMAIN InputEvents : InputEvents[i].f["message"] = r.f["message"]

\* the instant of the i-th output record
OutInstant(i) == Instant(RecencyField(InputEvents[SourceOf(events.a[i])]))

Kept == {SourceOf(events.a[i]) : i \in DOMAIN events.a}

\* C7 as stated: at most maxItems records, most recent first by the instant
\* of lastTimestamp, else eventTime, else firstTimestamp, and the records
\* kept are the maxItems most recent ones.
C7_MostRecentFirst ==
    pc = "events_done" =>
        /\ ~IsRaise(events)
        /\ Len(events.a) = Min(maxItems, Len(InputEvents))
        /\ \A i \in DOMAIN events.a :
              events.a[i].f["lastTimestamp"].s
                  = RecencyField(InputEvents[SourceOf(events.a[i])])
        /\ \A i, j \in DOMAIN events.a : i < j => OutInstant(i) >= OutInstant(j)
        /\ \A k \in DOMAIN InputEvents : k \notin Kept =>
              \A i \in DOMAIN events.a :
                  OutInstant(i) >= Instant(RecencyField(InputEvents[k]))

\* What the code does keep: the order of the timestamps as strings
C7_SortedAsStrings ==
    pc = "events_done" =>
        /\ ~IsRaise(events)
        /\ Len(events.a) = Min(maxItems, Len(InputEvents))
        /\ \A i, j \in DOMAIN events.a : i < j =>
              ~StrLess(events.a[i].f["lastTimestamp"].s,
                       events.a[j].f["lastTimestamp"].s)

-----------------------------------------------------------------------------
(* summarize_pod on its own: every combination of present and absent fields *)

\* the dict with the keys of `keys` that `present` holds
Dict(present, vals) == JObj([k \in present |-> vals[k]])

S_Running == <<"R", "u", "n", "n", "i", "n", "g">>
S_web == <<"w", "e", "b">>
S_CrashLoopBackOff == <<"C", "r", "a", "s", "h", "L", "o", "o", "p", "B", "a", "c", "k", "O", "f", "f">>
S_Error == <<"E", "r", "r", "o", "r">>

LongMessageLen == 201

HugeMessageLen == 2001

WaitingMessages == {JNull, JStr(<<"b", "a", "c", "k">>),
                    JStr(Filler(LongMessageLen))}

WaitingEntries ==
    {Dict(S, [reason |-> JStr(S_CrashLoopBackOff), message |-> m]) :
        S \in SUBSET {"reason", "message"}, m \in WaitingMessages}

\* a reason long enough for the summary to reach its cap
TerminatedEntries ==
    {Dict(S, [reason |-> r, exitCode |-> JNum(137)]) :
        S \in SUBSET {"reason", "exitCode"},
        r \in {JStr(S_Error), JStr(Filler(HugeMessageLen))}}

States ==
    {EmptyObj, JObj([running |-> EmptyObj])}
    \cup {JObj([waiting |-> w]) : w \in WaitingEntries}
    \cup {JObj([terminated |-> t]) : t \in TerminatedEntries}

LastStates == {EmptyObj} \cup {JObj([terminated |-> t]) : t \in TerminatedEntries}

ContainerStatuses ==
    {Dict(S, [name |-> JStr(S_web), restartCount |-> JNum(12),
              state |-> st, lastState |-> ls]) :
        S \in SUBSET {"name", "restartCount", "state", "lastState"},
        st \in States, ls \in LastStates}

StatusObjects ==
    {Dict(S, [phase |-> JStr(S_Running), containerStatuses |-> cs]) :
        S \in SUBSET {"phase", "containerStatuses"},
        cs \in {EmptyArr} \cup {JArr(<<c>>) : c \in ContainerStatuses}}

\* resource-state objects as the API serves them
PodObjects == {JObj([status |-> st]) : st \in StatusObjects}

\* what else fetch_pod may return: nothing, or a body that is JSON but no
\* pod
OtherPodResults ==
    {JNull, EmptyObj, EmptyArr, JArr(<<JNum(1)>>), JStr(<<"o", "k">>),
     JObj([status |-> JNull]), JObj([kind |-> JStr(<<"S">>)]),
     JObj([status |-> JStr(<<"o", "k">>)]),
     JObj([status |-> JObj([containerStatuses |-> JArr(<<JNull>>)])]),
     JObj([status |-> JObj([containerStatuses |->
        JArr(<<JObj([state |-> JObj([waiting |-> JNull])])>>)])])}

InitSummarize ==
    /\ pc = "summarize"
    /\ RequestIdle
    /\ podObj \in PodObjects \cup OtherPodResults
    /\ podSummary = <<>>
    /\ payload = EmptyObj /\ info = JNull
    /\ runbooks = <<>> /\ query = <<>> /\ maxChars = 0 /\ ctx = <<>>
    /\ evData = JNull /\ maxItems = 0 /\ events = EmptyArr /\ logs = <<>>

CallSummarize ==
    /\ pc = "summarize"
    /\ podSummary' = summarize_pod(podObj)
    /\ pc' = "summarized"
    /\ UNCHANGED <<payload, info, runbooks, query, maxChars, ctx, podObj,
                   evData, maxItems, events, logs>>
    /\ UNCHANGED requestVars

SpecSummarize == InitSummarize /\ [][CallSummarize]_vars

-----------------------------------------------------------------------------
(* C10: the lines of the summary *)

\* s.split("\n")
RECURSIVE SplitLines(_)
SplitLines(s) ==
    LET hits == {i \in DOMAIN s : s[i] = "\n"}
    IN  IF hits = {} THEN <<s>>
        ELSE LET i == CHOOSE h \in hits : \A g \in hits : h <= g
             IN  <<SubSeq(s, 1, i - 1)>> \o SplitLines(SubSeq(s, i + 1, Len(s)))

StartsWith(s, prefix) ==
    Len(s) >= Len(prefix) /\ SubSeq(s, 1, Len(prefix)) = prefix

SummaryLines == SplitLines(podSummary.s)

HasLine(key) == \E i \in DOMAIN SummaryLines : StartsWith(SummaryLines[i], key)

\* the parts of the source object, <<>> standing for a missing one
SrcStatus == IF "status" \in DOMAIN podObj.f THEN podObj.f["status"].f ELSE <<>>
SrcC0 ==
    IF "containerStatuses" \in DOMAIN SrcStatus
       /\ SrcStatus["containerStatuses"].a # <<>>
    THEN SrcStatus["containerStatuses"].a[1].f ELSE <<>>
SrcHasC0 == "containerStatuses" \in DOMAIN SrcStatus
            /\ SrcStatus["containerStatuses"].a # <<>>
SrcState == IF "state" \in DOMAIN SrcC0 THEN SrcC0["state"].f ELSE <<>>
SrcLast == IF "lastState" \in DOMAIN SrcC0 THEN SrcC0["lastState"].f ELSE <<>>
SrcEntry(d, k) == IF k \in DOMAIN d THEN d[k].f ELSE <<>>

\* C10 as stated: a line is in the summary only when its field is present in
\* the source object.
C10_OnlyPresentFields ==
    pc = "summarized" /\ podObj \in PodObjects =>
        /\ HasLine(K_phase) => "phase" \in DOMAIN SrcStatus
        /\ HasLine(K_container) => "name" \in DOMAIN SrcC0
        /\ HasLine(K_restartCount) => "restartCount" \in DOMAIN SrcC0
        /\ HasLine(K_waitingReason) => "reason" \in DOMAIN SrcEntry(SrcState, "waiting")
        /\ HasLine(K_waitingMessage) => "message" \in DOMAIN SrcEntry(SrcState, "waiting")
        /\ HasLine(K_terminatedReason)
              => "reason" \in DOMAIN SrcEntry(SrcState, "terminated")
        /\ HasLine(K_terminatedExitCode)
              => "exitCode" \in DOMAIN SrcEntry(SrcState, "terminated")
        /\ HasLine(K_lastReason) => "reason" \in DOMAIN SrcEntry(SrcLast, "terminated")
        /\ HasLine(K_lastExitCode) => "exitCode" \in DOMAIN SrcEntry(SrcLast, "terminated")

\* the text of a field of d that is a string or a number, the default's when
\* d lacks it
FieldText(d, k, default) == IF k \in DOMAIN d THEN Format(d[k]) ELSE default

\* the lines the amended claim promises, in their order
PromisedLines ==
    <<K_phase \o FieldText(SrcStatus, "phase", <<>>)>>
    \o (IF SrcHasC0
        THEN <<K_container \o FieldText(SrcC0, "name", <<>>),
               K_restartCount \o FieldText(SrcC0, "restartCount", <<"0">>)>>
        ELSE <<>>)
    \o (IF "waiting" \in DOMAIN SrcState
        THEN LET w == SrcEntry(SrcState, "waiting")
                 m == IF "message" \in DOMAIN w /\ w["message"].t = "str"
                      THEN w["message"].s ELSE <<>>
             IN  <<K_waitingReason \o FieldText(w, "reason", <<>>),
                   K_waitingMessage \o FirstChars(m, WaitingMessageMax)>>
        ELSE <<>>)
    \o (IF "terminated" \in DOMAIN SrcState
        THEN LET t == SrcEntry(SrcState, "terminated")
             IN  <<K_terminatedReason \o FieldText(t, "reason", <<>>),
                   K_terminatedExitCode \o FieldText(t, "exitCode", <<>>)>>
        ELSE <<>>)
    \o (IF "terminated" \in DOMAIN SrcLast
        THEN LET t == SrcEntry(SrcLast, "terminated")
             IN  <<K_lastReason \o FieldText(t, "reason", <<>>),
                   K_lastExitCode \o FieldText(t, "exitCode", <<>>)>>
        ELSE <<>>)

\* C10 amended: the phase line is always there; the container and
\* restartCount lines whenever there is a first container status; the two
\* lines of a waiting, terminated or last terminated entry whenever the entry
\* is there; a field missing from the source is a line with its default
\* value (empty, 0 for restartCount), an entry missing from the source gives
\* no line; the lines are in the fixed order, the text cut to 2000 characters.
C10_LinesOfPresentEntries ==
    pc = "summarized" /\ podObj \in PodObjects =>
        /\ ~IsRaise(podSummary)
        /\ podSummary.s = FirstChars(Join(PromisedLines, <<"\n">>), PodSummaryMax)

\* a waiting container without a phase, a restart count or a reason
C10_Witness ==
    /\ pc = "summarized"
    /\ podObj \in PodObjects
    /\ "phase" \notin DOMAIN SrcStatus
    /\ "waiting" \in DOMAIN SrcState
    /\ "reason" \notin DOMAIN SrcEntry(SrcState, "waiting")
    /\ "restartCount" \notin DOMAIN SrcC0
    /\ SummaryLines[1] = K_phase
    /\ SummaryLines[3] = K_restartCount \o <<"0">>
    /\ SummaryLines[4] = K_waitingReason
    /\ Len(SummaryLines) = 5

-----------------------------------------------------------------------------
(* The cluster API, as k8s_get and fetch_pod_logs see it *)

\* what urlopen does with a request: it raises (no route, timeout, a status
\* that is not 2xx) or hands back a body
Failures == {[status |-> "network"], [status |-> "timeout"],
             [status |-> "http_error"]}

\* a body json.loads raises on
Unparseable == [status |-> "ok", parses |-> FALSE, data |-> JNull]

\* a body json.loads turns into value v
Json(v) == [status |-> "ok", parses |-> TRUE, data |-> v]

\* path.split("/") of the three requests; the quoted namespace and pod name
\* are written {ns} and {pod}
PodPath == <<"", "api", "v1", "namespaces", "{ns}", "pods", "{pod}">>
EventsPath == <<"", "api", "v1", "namespaces", "{ns}", "events?fieldSelector={pod}">>
LogPath == <<"", "api", "v1", "namespaces", "{ns}", "pods", "{pod}", "log?tailLines=80">>

\* the kind label of k8s_get:
\* path.split("/")[1] if path.startswith("/api/") else "get"
KindLabel(path) ==
    IF Len(path) >= 3 /\ path[1] = "" /\ path[2] = "api" THEN path[2] ELSE "get"

\* lines 83-90 of k8s_get, the reply to its request given: what it returns
K8sGetResult(reply) ==
    IF reply.status = "ok" /\ reply.parses THEN reply.data ELSE JNull

\* ... and the status label it counts
K8sGetStatus(reply) ==
    IF reply.status = "ok" /\ reply.parses THEN "success" ELSE "error"

LogMax == 4000

\* lines 126-130 of fetch_pod_logs, the reply to its request given
LogResult(reply) ==
    IF reply.status = "ok" THEN JStr(Take(reply.body, LogMax)) ELSE EmptyStr

\* urllib.parse.quote(v) raises unless v is a str
QuoteRaises(v) == v.t # "str"

\* not (namespace and pod)
NothingToFetch(namespace, pod) == ~(Truthy(namespace) /\ Truthy(pod))

-----------------------------------------------------------------------------
(* recommend: one request *)

S_prod == <<"p", "r", "o", "d">>
S_web1 == <<"w", "e", "b", "-", "1">>
S_CrashLoop == <<"C", "r", "a", "s", "h", "L", "o", "o", "p">>
S_critical == <<"c", "r", "i", "t", "i", "c", "a", "l">>
S_restarting == <<"p", "o", "d", " ", "w", "e", "b", "-", "1", " ", "i", "s", " ", "r", "e", "s", "t", "a", "r", "t", "i", "n", "g">>
S_advice == <<"c", "h", "e", "c", "k", " ", "t", "h", "e", " ", "i", "m", "a", "g", "e">>
S_failed == <<"O", "p", "e", "n", "A", "I", " ", "c", "a", "l", "l", " ", "f", "a", "i", "l", "e", "d", ":", " ">>
S_timedOut == <<"R", "e", "q", "u", "e", "s", "t", " ", "t", "i", "m", "e", "d", " ", "o", "u", "t", ".">>

DefaultMaxChars == 2000

AlertWith(labels, summary) ==
    JObj([alerts |-> JArr(<<JObj([labels |-> JObj(labels),
                                 annotations |-> JObj([summary |-> JStr(summary)])])>>)])

FullLabels == [alertname |-> JStr(S_CrashLoop), severity |-> JStr(S_critical),
               namespace |-> JStr(S_prod), pod |-> JStr(S_web1)]

\* alerts that name a resource
PodPayloads ==
    {AlertWith(FullLabels, S_restarting),
     AlertWith(FullLabels, Filler(LongSummaryLen)),
     \* a resource, and an empty namespace
     AlertWith([pod |-> JStr(S_web1), namespace |-> EmptyStr], S_restarting)}

\* alerts that name none
NoPodPayloads ==
    {EmptyObj,
     AlertWith([alertname |-> JStr(S_CrashLoop), namespace |-> JStr(S_prod)],
               S_restarting),
     AlertWith([pod |-> EmptyStr, namespace |-> JStr(S_prod),
                pod_name |-> JStr(S_web1)], S_restarting),
     AlertWith([pod |-> EmptyStr], <<>>)}

Payloads == PodPayloads \cup NoPodPayloads
            \cup {JObj([alerts |-> JArr(<<JNull>>)])}

\* the runbook file: absent (""), or these texts
RunbookTexts ==
    {<<>>,
     <<"d", "i", "s", "k", " ", "f", "u", "l", "l">> \o <<"\n", "\n">> \o <<"C", "r", "a", "s", "h", "L", "o", "o", "p", ":", " ", "c", "h", "e", "c", "k", " ", "i", "m", "a", "g", "e">>
     \o <<"\n", "\n">> \o <<"P", "o", "d", " ", "p", "r", "o", "d", " ", "r", "e", "s", "t", "a", "r", "t", "s">>}

LongReasonLen == 2001

WaitingPod ==
    JObj([status |-> JObj([phase |-> JStr(S_Running),
        containerStatuses |-> JArr(<<JObj([name |-> JStr(S_web),
            restartCount |-> JNum(12),
            state |-> JObj([waiting |-> JObj([reason |-> JStr(S_CrashLoopBackOff),
                                              message |-> JStr(Filler(LongMessageLen))])]),
            lastState |-> JObj([terminated |-> JObj([reason |-> JStr(S_Error),
                                                     exitCode |-> JNum(1)])])])>>)])])

LongReasonPod ==
    JObj([status |-> JObj([
        containerStatuses |-> JArr(<<JObj([
            state |-> JObj([terminated |->
                JObj([reason |-> JStr(Filler(LongReasonLen))])])])>>)])])

\* a body that is JSON and no object
NotAnObject == JArr(<<JNum(1)>>)

PodReplies == Failures \cup {Unparseable, Json(NotAnObject), Json(WaitingPod),
                             Json(LongReasonPod)}

ManyEvents == 16

LongEventMessageLen == 301

MixedEvents ==
    <<JObj([type |-> JStr(<<"W">>), reason |-> JStr(<<"B">>),
            message |-> JStr(<<"m", "1">>), count |-> JNum(3),
            lastTimestamp |-> JStr(TimeStr(4)), firstTimestamp |-> JStr(TimeStr(3)),
            eventTime |-> JNull]),
      JObj([type |-> JStr(<<"N">>), message |-> JStr(<<"m", "2">>),
            lastTimestamp |-> JNull, firstTimestamp |-> JNull,
            eventTime |-> JStr(MicroTimeStr(6, 5))]),
      JObj([message |-> JNull, firstTimestamp |-> JStr(TimeStr(5))])>>

LongEvents ==
    [i \in 1..ManyEvents |->
        JObj([type |-> JStr(<<"W">>), message |-> JStr(Filler(LongEventMessageLen)),
              count |-> JNum(i), lastTimestamp |-> JStr(TimeStr(i % 10))])]

EventReplies ==
    Failures \cup {Unparseable, Json(NotAnObject), Json(EmptyObj),
                   Json(JObj([items |-> JArr(MixedEvents)])),
                   Json(JObj([items |-> JArr(LongEvents)]))}

LongLogLen == 4001

LogReplies ==
    Failures \cup {[status |-> "ok", body |-> b] :
                      b \in {<<>>, <<"p", "a", "n", "i", "c">>, Filler(LongLogLen)}}

Init ==
    /\ pc = "start"
    /\ payload \in Payloads
    /\ saToken \in BOOLEAN
    /\ info = JNull
    /\ runbooks = <<>>
    /\ query = <<>>
    /\ maxChars = DefaultMaxChars
    /\ ctx = <<>>
    /\ podObj = JNull
    /\ podSummary = JNull
    /\ evData = JNull
    /\ maxItems = DefaultMaxItems
    /\ events = EmptyArr
    /\ logs = EmptyStr
    /\ sent = <<>>
    /\ calls = <<>>
    /\ text = JNull
    /\ completions = <<>>
    /\ k8s_context = JNull
    /\ rows = <<>>
    /\ exc = JNull
    /\ response = NoResponse
    /\ REQ_TOTAL = NoCounts
    /\ LAT = 0
    /\ OPENAI_TOTAL = NoCounts
    /\ K8S_TOTAL = EmptyBag

\* a counter whose child is looked up and never incremented
IncNothing(counter, status) == counter

\* counter.labels(status).inc()
Inc(counter, status) == [counter EXCEPT ![status] = @ + 1]

\* the next statement, or the handler when v is an exception
Goto(v, next) ==
    IF IsRaise(v) THEN pc' = "except" /\ exc' = v
    ELSE pc' = next /\ exc' = exc

\* line 171
Extract ==
    /\ pc = "start"
    /\ info' = (IF IsRaise(extract(payload)) THEN info ELSE extract(payload))
    /\ Goto(extract(payload), "load_runbooks")
    /\ UNCHANGED <<payload, runbooks, query, maxChars, ctx, podObj, podSummary,
                   evData, maxItems, events, logs, saToken, sent, calls, text,
                   completions, k8s_context, rows, response, REQ_TOTAL, LAT,
                   OPENAI_TOTAL, K8S_TOTAL>>

\* line 172: the file is read, or cannot be
LoadRunbooks ==
    /\ pc = "load_runbooks"
    /\ \E r \in {JStr(t) : t \in RunbookTexts} \cup {Raise("OSError")} :
          /\ runbooks' = (IF IsRaise(r) THEN runbooks ELSE r.s)
          /\ Goto(r, "fetch_pod")
    /\ UNCHANGED <<payload, info, query, maxChars, ctx, podObj, podSummary,
                   evData, maxItems, events, logs, saToken, sent, calls, text,
                   completions, k8s_context, rows, response, REQ_TOTAL, LAT,
                   OPENAI_TOTAL, K8S_TOTAL>>

\* whether recommend calls the three fetch functions: if info.get("pod")
Fetches == Truthy(info.f.pod)

\* k8s_get(path), lines 77-90, as a step: `result` is what it returns
K8sGet(kind, path, result) ==
    IF ~saToken
    THEN /\ result = JNull
         /\ calls' = Append(calls, [kind |-> kind, ended |-> "no_credential"])
         /\ UNCHANGED <<sent, K8S_TOTAL>>
    ELSE \E reply \in (IF kind = "pod" THEN PodReplies ELSE EventReplies) :
            /\ result = K8sGetResult(reply)
            /\ sent' = Append(sent, path)
            /\ calls' = Append(calls,
                  [kind |-> kind,
                   ended |-> IF reply.status # "ok" THEN reply.status
                             ELSE IF reply.parses THEN "ok" ELSE "malformed"])
            /\ K8S_TOTAL' = K8S_TOTAL (+) SetToBag({<<KindLabel(path),
                                                     K8sGetStatus(reply)>>})

\* line 175, fetch_pod
FetchPod ==
    /\ pc = "fetch_pod"
    /\ IF ~Fetches \/ NothingToFetch(info.f.namespace, info.f.pod)
       THEN /\ podObj' = JNull
            /\ Goto(JNull, "fetch_events")
            /\ UNCHANGED <<sent, calls, K8S_TOTAL>>
       ELSE IF QuoteRaises(info.f.namespace) \/ QuoteRaises(info.f.pod)
       THEN /\ Goto(Raise("TypeError"), "fetch_events")
            /\ UNCHANGED <<podObj, sent, calls, K8S_TOTAL>>
       ELSE /\ \E result \in {K8sGetResult(r) : r \in PodReplies} :
                  K8sGet("pod", PodPath, result) /\ podObj' = result
            /\ Goto(JNull, "fetch_events")
    /\ UNCHANGED <<payload, info, runbooks, query, maxChars, ctx, podSummary,
                   evData, maxItems, events, logs, saToken, text, completions,
                   k8s_context, rows, response, REQ_TOTAL, LAT, OPENAI_TOTAL>>

\* line 176, fetch_pod_events
FetchEvents ==
    /\ pc = "fetch_events"
    /\ IF ~Fetches \/ NothingToFetch(info.f.namespace, info.f.pod)
       THEN /\ events' = EmptyArr
            /\ Goto(JNull, "fetch_logs")
            /\ UNCHANGED <<evData, sent, calls, K8S_TOTAL>>
       ELSE IF QuoteRaises(info.f.namespace) \/ QuoteRaises(info.f.pod)
       THEN /\ Goto(Raise("TypeError"), "fetch_logs")
            /\ UNCHANGED <<evData, events, sent, calls, K8S_TOTAL>>
       ELSE /\ \E result \in {K8sGetResult(r) : r \in EventReplies} :
                  /\ K8sGet("events", EventsPath, result)
                  /\ evData' = result
                  /\ events' = (IF IsRaise(EventsFrom(result, maxItems)) THEN events
                                ELSE EventsFrom(result, maxItems))
                  /\ Goto(EventsFrom(result, maxItems), "fetch_logs")
    /\ UNCHANGED <<payload, info, runbooks, query, maxChars, ctx, podObj,
                   podSummary, maxItems, logs, saToken, text, completions,
                   k8s_context, rows, response, REQ_TOTAL, LAT, OPENAI_TOTAL>>

\* line 177, fetch_pod_logs
FetchLogs ==
    /\ pc = "fetch_logs"
    /\ IF ~Fetches \/ NothingToFetch(info.f.namespace, info.f.pod)
       THEN /\ logs' = EmptyStr
            /\ Goto(JNull, "summarize")
            /\ UNCHANGED <<sent, calls>>
       ELSE IF ~saToken
       THEN /\ logs' = EmptyStr
            /\ calls' = Append(calls, [kind |-> "logs", ended |-> "no_credential"])
            /\ Goto(JNull, "summarize")
            /\ UNCHANGED sent
       ELSE IF QuoteRaises(info.f.namespace) \/ QuoteRaises(info.f.pod)
       THEN /\ Goto(Raise("TypeError"), "summarize")
            /\ UNCHANGED <<logs, sent, calls>>
       ELSE \E reply \in LogReplies :
               /\ logs' = LogResult(reply)
               /\ sent' = Append(sent, LogPath)
               /\ calls' = Append(calls, [kind |-> "logs", ended |-> reply.status])
               /\ Goto(JNull, "summarize")
    /\ UNCHANGED <<payload, info, runbooks, query, maxChars, ctx, podObj,
                   podSummary, evData, maxItems, events, saToken, text,
                   completions, k8s_context, rows, response, REQ_TOTAL, LAT,
                   OPENAI_TOTAL, K8S_TOTAL>>

\* line 178
Summarize ==
    /\ pc = "summarize"
    /\ podSummary' = (IF IsRaise(summarize_pod(podObj)) THEN podSummary
                      ELSE summarize_pod(podObj))
    /\ Goto(summarize_pod(podObj), "retrieve")
    /\ UNCHANGED <<payload, info, runbooks, query, maxChars, ctx, podObj,
                   evData, maxItems, events, logs, saToken, sent, calls, text,
                   completions, k8s_context, rows, response, REQ_TOTAL, LAT,
                   OPENAI_TOTAL, K8S_TOTAL>>

\* the query of line 181
QueryOf(i) ==
    Format(i.f.alertname) \o <<" ">> \o Format(i.f.summary) \o <<" ">>
    \o Format(i.f.namespace) \o <<" ">> \o Format(i.f.severity) \o <<" ">>
    \o Format(i.f.pod)

\* line 181; the prompt of lines 183-215 is made of info, pod_summary, events,
\* logs and ctx, and changes none of them
Retrieve ==
    /\ pc = "retrieve"
    /\ query' = QueryOf(info)
    /\ ctx' = retrieve(runbooks, QueryOf(info), maxChars)
    /\ Goto(JNull, "complete")
    /\ UNCHANGED <<payload, info, runbooks, maxChars, podObj, podSummary,
                   evData, maxItems, events, logs, saToken, sent, calls, text,
                   completions, k8s_context, rows, response, REQ_TOTAL, LAT,
                   OPENAI_TOTAL, K8S_TOTAL>>

\* lines 217-224: the completion service answers, or the call raises
Complete ==
    /\ pc = "complete"
    /\ \E ended \in {"success", "error"} :
          /\ text' = (IF ended = "success" THEN JStr(S_advice)
                      ELSE JStr(S_failed \o S_timedOut))
          /\ completions' = Append(completions, ended)
          /\ OPENAI_TOTAL' = Inc(OPENAI_TOTAL, ended)
    /\ Goto(JNull, "store")
    /\ UNCHANGED <<payload, info, runbooks, query, maxChars, ctx, podObj,
                   podSummary, evData, maxItems, events, logs, saToken, sent,
                   calls, k8s_context, rows, response, REQ_TOTAL, LAT, K8S_TOTAL>>

\* lines 227-231
Bundle ==
    JObj([pod_summary |-> podSummary, events |-> events,
          logs_tail |-> Slice(logs, LogMax)])

\* a row that keeps the text of a successful completion only
RowOfSuccess ==
    [alertname |-> info.f.alertname, severity |-> info.f.severity,
     namespace |-> info.f.namespace, pod |-> info.f.pod,
     deployment |-> info.f.deployment, summary |-> info.f.summary,
     recommendation |-> IF completions = <<"success">> THEN text ELSE EmptyStr,
     k8s_context |-> Bundle, raw_json |-> payload]

\* lines 233-238: the row written (the two JSON columns are cut to 200000
\* characters, more than any text of this model has)
Row ==
    [alertname |-> info.f.alertname, severity |-> info.f.severity,
     namespace |-> info.f.namespace, pod |-> info.f.pod,
     deployment |-> info.f.deployment, summary |-> info.f.summary,
     recommendation |-> text, k8s_context |-> Bundle, raw_json |-> payload]

\* lines 226-240: the bundle is made and the row written, or the database
\* raises
Store ==
    /\ pc = "store"
    /\ k8s_context' = Bundle
    /\ \E written \in BOOLEAN :
          IF written
          THEN rows' = Append(rows, Row) /\ Goto(JNull, "finish")
          ELSE rows' = rows /\ Goto(Raise("sqlite3.OperationalError"), "finish")
    /\ UNCHANGED <<payload, info, runbooks, query, maxChars, ctx, podObj,
                   podSummary, evData, maxItems, events, logs, saToken, sent,
                   calls, text, completions, response, REQ_TOTAL, LAT,
                   OPENAI_TOTAL, K8S_TOTAL>>

\* lines 242-244
Finish ==
    /\ pc = "finish"
    /\ REQ_TOTAL' = Inc(REQ_TOTAL, "success")
    /\ LAT' = LAT + 1
    /\ response' = [kind |-> "result", alert |-> info, k8s_context |-> k8s_context,
                    recommendation |-> text]
    /\ pc' = "done"
    /\ UNCHANGED <<payload, info, runbooks, query, maxChars, ctx, podObj,
                   podSummary, evData, maxItems, events, logs, saToken, sent,
                   calls, text, completions, k8s_context, rows, exc,
                   OPENAI_TOTAL, K8S_TOTAL>>

\* lines 246-249
Except ==
    /\ pc = "except"
    /\ REQ_TOTAL' = Inc(REQ_TOTAL, "error")
    /\ LAT' = LAT + 1
    /\ response' = [kind |-> "error", error |-> exc.e]
    /\ pc' = "done"
    /\ UNCHANGED <<payload, info, runbooks, query, maxChars, ctx, podObj,
                   podSummary, evData, maxItems, events, logs, saToken, sent,
                   calls, text, completions, k8s_context, rows, exc,
                   OPENAI_TOTAL, K8S_TOTAL>>

Next ==
    \/ Extract
    \/ LoadRunbooks
    \/ FetchPod
    \/ FetchEvents
    \/ FetchLogs
    \/ Summarize
    \/ Retrieve
    \/ Complete
    \/ Store
    \/ Finish
    \/ Except

Spec == Init /\ [][Next]_vars

-----------------------------------------------------------------------------
(* The claims about a request *)

Extracted == info # JNull

\* the alert names a resource
NamesResource == Extracted /\ info.f.pod.t = "str" /\ info.f.pod.s # <<>>

\* the alert names none
NamesNoResource == Extracted /\ info.f.pod = EmptyStr

StorageFailed == IsRaise(exc) /\ exc.e = "sqlite3.OperationalError"

RunbooksFailed == IsRaise(exc) /\ exc.e = "OSError"

EmptyBundle ==
    JObj([pod_summary |-> JStr(S_notFetched), events |-> EmptyArr,
          logs_tail |-> EmptyStr])

\* how the queries of one kind ended
Ended(kind) == {calls[i].ended : i \in {j \in DOMAIN calls : calls[j].kind = kind}}

\* C1 as stated, for the requests in which nothing but cluster queries fails
\* (the runbook file is read, the row is written): whichever of the three
\* queries fail, and however, recommend calls the completion service and
\* returns the structured response; a failed query leaves its empty value in
\* the bundle, a query that succeeded its value.
C1_QueryFailuresAbsorbed ==
    pc = "done" /\ NamesResource /\ ~StorageFailed /\ ~RunbooksFailed =>
        /\ Len(completions) = 1
        /\ response.kind = "result"
        /\ LET b == response.k8s_context.f
           IN  /\ Ended("pod") \cap {"ok"} = {} => b.pod_summary = JStr(S_notFetched)
               /\ Ended("events") \cap {"ok"} = {} => b.events = EmptyArr
               /\ Ended("logs") \cap {"ok"} = {} => b.logs_tail = EmptyStr
               /\ Ended("pod") = {"ok"} => b.pod_summary = podSummary
               /\ Ended("events") = {"ok"} => b.events = events
               /\ Ended("logs") = {"ok"} => b.logs_tail = logs

\* C2: when the alert's resource name is empty, no request is sent to the
\* cluster and no query is made, with or without a credential and whatever
\* the namespace, and the bundle holds the sentinel summary, no event and an
\* empty log tail.
C2_NoResourceNoQuery ==
    NamesNoResource =>
        /\ sent = <<>>
        /\ calls = <<>>
        /\ K8S_TOTAL = EmptyBag
        /\ pc \in {"retrieve", "complete", "store", "finish"} =>
              podSummary = JStr(S_notFetched) /\ events = EmptyArr /\ logs = EmptyStr
        /\ k8s_context # JNull => k8s_context = EmptyBundle
        /\ response.kind = "result" => response.k8s_context = EmptyBundle

\* a request with a credential and a namespace, its pod label empty, answered
C2_Witness ==
    /\ pc = "done"
    /\ NamesNoResource
    /\ saToken
    /\ info.f.namespace = JStr(S_prod)
    /\ response.kind = "result"
    /\ response.k8s_context = EmptyBundle
    /\ sent = <<>>

CompletionFailed == completions = <<"error">>

AnsweredDegraded ==
    /\ response.kind = "result"
    /\ StartsWith(response.recommendation.s, S_failed)
    /\ Len(response.recommendation.s) > Len(S_failed)
    /\ Len(rows) = 1
    /\ rows[1].recommendation = response.recommendation
    /\ REQ_TOTAL = [success |-> 1, error |-> 0]

\* C3 as stated: whenever the completion call fails, the request ends with
\* the error text as recommendation, a row holding it, the success status
\* counted and the structured response.
C3_AsStated == pc = "done" /\ CompletionFailed => AnsweredDegraded

\* C3 amended: the same, whenever the completion call fails and the row is
\* written.
C3_CompletionFailure ==
    pc = "done" /\ CompletionFailed /\ ~StorageFailed => AnsweredDegraded

C3_Witness == pc = "done" /\ CompletionFailed /\ AnsweredDegraded

\* C4: a request that ends in an exception answers {error} and counts the
\* error status and one latency; every request counts exactly one of the two
\* statuses and observes the latency once, at its end.
C4_OneOutcome ==
    /\ pc # "done" => REQ_TOTAL = NoCounts /\ LAT = 0 /\ response = NoResponse
    /\ pc = "done" =>
          /\ LAT = 1
          /\ REQ_TOTAL["success"] + REQ_TOTAL["error"] = 1
          /\ IF IsRaise(exc)
             THEN response = [kind |-> "error", error |-> exc.e]
                  /\ REQ_TOTAL["error"] = 1
             ELSE response.kind = "result" /\ REQ_TOTAL["success"] = 1

\* the row could not be written, after the completion service answered
C4_Witness ==
    /\ pc = "done"
    /\ StorageFailed
    /\ completions = <<"success">>
    /\ response.kind = "error"
    /\ REQ_TOTAL = [success |-> 0, error |-> 1]
    /\ LAT = 1

QueryKinds == {"pod", "events", "logs"}

\* the values the kind label could take
KindLabels == {"api", "get", "pod", "pods", "events", "log", "logs"}

Outcome(call) == IF call.ended = "ok" THEN "success" ELSE "error"

\* C5 as stated: every query made, of each kind and however it ends (a
\* missing credential included), is counted once under its kind and its
\* outcome: some labelling of the three kinds, different labels for different
\* kinds, makes the counter equal to the number of queries.
C5_EveryQueryCounted ==
    \E label \in [QueryKinds -> KindLabels] :
        /\ \A k1, k2 \in QueryKinds : k1 # k2 => label[k1] # label[k2]
        /\ \A k \in QueryKinds, o \in {"success", "error"} :
              CopiesIn(<<label[k], o>>, K8S_TOTAL)
                  = Cardinality({i \in DOMAIN calls :
                                    calls[i].kind = k /\ Outcome(calls[i]) = o})

BundleBounded(b) ==
    /\ Len(b.f.logs_tail.s) <= 4000
    /\ Len(b.f.pod_summary.s) <= 2000
    /\ Len(b.f.events.a) <= 15
    /\ \A i \in DOMAIN b.f.events.a : Len(b.f.events.a[i].f["message"].s) <= 300

\* C9: in every response, and in every row written, the log tail has at most
\* 4000 characters, the resource summary at most 2000, every event message
\* at most 300, the event list at most 15 entries and the alert summary at
\* most 500 characters.
C9_SizeBounds ==
    /\ response.kind = "result" =>
          /\ BundleBounded(response.k8s_context)
          /\ Len(response.alert.f.summary.s) <= 500
    /\ \A i \in DOMAIN rows :
          BundleBounded(rows[i].k8s_context) /\ Len(rows[i].summary.s) <= 500

\* a response in which every one of the texts and the list was cut
C9_Witness ==
    /\ response.kind = "result"
    /\ Len(response.k8s_context.f.logs_tail.s) = 4000
    /\ Len(response.k8s_context.f.pod_summary.s) = 2000
    /\ Len(response.k8s_context.f.events.a) = 15
    /\ Len(response.k8s_context.f.events.a[1].f["message"].s) = 300
    /\ Len(response.alert.f.summary.s) = 500
    /\ Len(LongEvents) > 15

=============================================================================
